---- MODULE Spec2Model ----
(***************************************************************************)
(* dboxserver (server.go, the files.Client version, lines 252-521):        *)
(* an HTTP origin in front of a Dropbox folder.  The model has             *)
(*   - the remote folder (the Dropbox side of db.GetMetadata, db.Download, *)
(*     db.ListFolderGetLatestCursor and db.ListFolderLongpoll),            *)
(*   - the wall clock read by time.Now(),                                  *)
(*   - the package variables lmod and dbcache,                             *)
(*   - the goroutine longpollloop, one step per blocking call,             *)
(*   - a fixed pool of request goroutines running dbhandler, one step per  *)
(*     access to shared state (cache, lmod, clock) or to the remote store. *)
(* Strings that the code takes apart (request paths) are sequences of      *)
(* characters; file bodies are opaque values naming the path and revision  *)
(* they are the content of.                                                *)
(***************************************************************************)
EXTENDS Integers, Sequences, FiniteSets, TLC

(***************************************************************************)
(* Bounds of the model.                                                    *)
(***************************************************************************)
MaxTime == 1
MaxChanges == 1
MaxRequests == 2
NHandlers == 2

Handlers == 1..NHandlers

(***************************************************************************)
(* Request paths.                                                          *)
(***************************************************************************)
RobotsPath == <<"/", "r", "o", "b", "o", "t", "s", ".", "t", "x", "t">>
RootPath == <<"/">>
JsonPath == <<"/", "a", ".", "j", "s", "o", "n">>
PlainPath == <<"/", "b">>

FilePaths == {JsonPath, PlainPath}
ReservedPaths == {RobotsPath, RootPath}
Paths == FilePaths \cup ReservedPaths

(***************************************************************************)
(* Values.                                                                 *)
(***************************************************************************)
OctetStream == "application/octet-stream"
RepoURL == "https://github.com/sajal/dboxserver"
StatusOK == 200
StatusFound == 302
StatusNotModified == 304
StatusNotFound == 404
StatusInternalServerError == 500

\* r.Header.Get("If-None-Match") of a request without the header is "".
NoHeader == 0
HeaderValues == {NoHeader, 1}

Text(s) == <<"text", <<s>>, 0>>
\* The bytes the remote store holds for path p at revision rev.
Content(p, rev) == <<"data", p, rev>>
NoData == <<"data", <<>>, 0>>

RobotsBody == Text("User-agent: *\nDisallow: /\n")

\* *files.FileMetadata: nil, or the metadata of a file revision.
NilMeta == [isNil |-> TRUE, Rev |-> 0]
FileMetadata(rev) == [isNil |-> FALSE, Rev |-> rev]

\* *cacheobj.  clean is a history field: no write of lmod has happened since
\* lastFetch was stamped.
NilObj ==
  [isNil |-> TRUE, exists |-> FALSE, lastFetch |-> 0, entry |-> NilMeta,
   data |-> NoData, contentType |-> "", clean |-> FALSE]

NewObj(t, ex, e) ==
  [isNil |-> FALSE, exists |-> ex, lastFetch |-> t, entry |-> e,
   data |-> NoData, contentType |-> "", clean |-> TRUE]

\* http.ResponseWriter: what has been sent.  status 0: header not written yet.
NoResp ==
  [status |-> 0, contentType |-> "", etag |-> NoHeader, location |-> "",
   body |-> <<>>, aborted |-> FALSE]

NoCnt == [get |-> 0, meta |-> 0, dl |-> 0, set |-> 0]

VARIABLES
  now,          \* the clock time.Now() reads
  remote,       \* the monitored folder: path -> none | dir | file(rev)
  rseq,         \* number of changes made in the folder (the cursor position)
  lmod,         \* var lmod
  pending,      \* history: the folder changed after lmod was last written
  cache,        \* dbcache.data
  lpc,          \* longpollloop: where the goroutine is
  cur,          \* longpoll: cur.Cursor
  dp,           \* longpoll: the long-poll result
  pc,           \* dbhandler: where each request goroutine is
  key,          \* dbhandler: r.URL.Path
  inm,          \* dbhandler: the If-None-Match header of the request
  oldobj,       \* dbhandler: the entry cache.Get returned
  obj,          \* dbhandlerMiss / dbhandlerNotFound: the entry being built
  tmp,          \* dbhandlerMiss: the metadata in hand
  isDir,        \* dbhandlerMiss: the type assertion at line 375 failed
  resp,         \* the response written so far
  cnt,          \* history: calls this request made (Get, metadata, download, Set)
  via,          \* history: how the request ended
  reqs,         \* number of requests started
  focus         \* the folder path this run's requests and changes are about

vars ==
  <<now, remote, rseq, lmod, pending, cache, lpc, cur, dp, pc,
    key, inm, oldobj, obj, tmp, isDir, resp, cnt, via, reqs, focus>>

loopVars == <<lpc, cur, dp>>
sharedVars == <<lmod, cache>>
envVars == <<remote, rseq>>
reqVars ==
  <<pc, key, inm, oldobj, obj, tmp, isDir, resp, cnt, via, reqs, focus>>

(***************************************************************************)
(* The remote folder.                                                      *)
(***************************************************************************)
NoFile == [kind |-> "none", rev |-> 0]
Dir == [kind |-> "dir", rev |-> 0]
File(rev) == [kind |-> "file", rev |-> rev]

\* The MIME type the store would report for a path (dropbox.Entry.MimeType of
\* the first version; files.FileMetadata carries none).
RemoteMime(p) == IF p = JsonPath THEN OctetStream ELSE "text/plain"

(***************************************************************************)
(* time.Time.Before on two clock readings.                                 *)
(***************************************************************************)
\* Mutant: an entry stamped in the instant of the invalidation counts as stale.
BeforeOrAt(t, u) == t <= u

Before(t, u) == t < u

(***************************************************************************)
(* cache.Get and cache.Set; each runs under the RWMutex, so each is one    *)
(* atomic step.  Get's errNotCached is the nil object.                     *)
(***************************************************************************)
CacheGet(c, k) == c[k]

\* Mutant: an entry already there is kept (the first writer wins).
CacheSetIfAbsent(c, k, o) == [c EXCEPT ![k] = IF @.isNil THEN o ELSE @]

CacheSet(c, k, o) == [c EXCEPT ![k] = o]

(***************************************************************************)
(* strings.Split(key, ".") and mime.TypeByExtension.                       *)
(***************************************************************************)
RECURSIVE SplitFrom(_, _, _)
\* Split s on sep: done is the pieces closed so far followed by the open piece.
SplitFrom(s, sep, done) ==
  IF s = <<>> THEN done
  ELSE IF Head(s) = sep
       THEN SplitFrom(Tail(s), sep, Append(done, <<>>))
       ELSE SplitFrom(Tail(s), sep,
                      [done EXCEPT ![Len(done)] = Append(@, Head(s))])

Split(s, sep) == SplitFrom(s, sep, <<<<>>>>)

TypeByExtension(ext) ==
  IF ext = <<".", "j", "s", "o", "n">> THEN "application/json"
  ELSE IF ext = <<".", "h", "t", "m", "l">> THEN "text/html; charset=utf-8"
  ELSE IF ext = <<".", "t", "x", "t">> THEN "text/plain; charset=utf-8"
  ELSE ""

\* dbhandlerMiss, lines 413-423: the content type stored with a fresh download.
FixMime(k) ==
  LET s == Split(k, ".")
  IN IF Len(s) > 1
     THEN LET ext == <<".">> \o s[Len(s)]
              mtype == TypeByExtension(ext)
          IN IF mtype # "" THEN mtype ELSE OctetStream
     ELSE OctetStream

(***************************************************************************)
(* http.ResponseWriter.  Once the status line is out, later header changes *)
(* and WriteHeader calls do not reach the client; Write appends.           *)
(***************************************************************************)
SetHeader(w, field, v) == IF w.status = 0 THEN [w EXCEPT ![field] = v] ELSE w

WriteHeader(w, code) == IF w.status = 0 THEN [w EXCEPT !.status = code] ELSE w

Write(w, chunk) == [WriteHeader(w, StatusOK) EXCEPT !.body = Append(@, chunk)]

HttpError(w, msg, code) ==
  Write(WriteHeader(SetHeader(w, "contentType", "text/plain; charset=utf-8"),
                    code),
        Text(msg))

Redirect(w, url, code) ==
  Write(WriteHeader(SetHeader(SetHeader(w, "location", url), "contentType",
                              "text/html; charset=utf-8"),
                    code),
        Text("Found"))

\* A nil pointer dereference in the handler: net/http recovers the panic and
\* drops the connection with whatever was sent.
Panic(w) == [w EXCEPT !.aborted = TRUE]

(***************************************************************************)
(* dbhandlerServe.                                                         *)
(***************************************************************************)
\* Mutant: the If-None-Match test is missing (the first version's
\* dbhandlerServe).
ServeUnconditional(w, m, o) ==
  IF ~o.exists THEN HttpError(w, "File not found", StatusNotFound)
  ELSE Write(SetHeader(SetHeader(w, "contentType", o.contentType), "etag",
                       o.entry.Rev),
             o.data)

Serve(w, m, o) ==
  IF ~o.exists THEN HttpError(w, "File not found", StatusNotFound)
  ELSE LET w1 == SetHeader(w, "contentType", o.contentType)
       IN IF o.entry.isNil THEN Panic(w1)
          ELSE LET w2 == SetHeader(w1, "etag", o.entry.Rev)
               IN IF m = o.entry.Rev THEN WriteHeader(w2, StatusNotModified)
                  ELSE Write(w2, o.data)

(***************************************************************************)
(* dbhandler, lines 451-460: the two fixed responses and everything else.  *)
(***************************************************************************)
\* Mutant: the robots.txt test is missing.
RouteNoRobots(p) == IF p = RootPath THEN "root" ELSE "cache"

Route(p) ==
  IF p = RobotsPath THEN "robots"
  ELSE IF p = RootPath THEN "root"
  ELSE "cache"

\* Mutant: the previous entry is never reused.
ReuseNever(old, o) ==
  IF old.isNil \/ old.entry.isNil THEN "download"
  ELSE IF o.entry.isNil THEN "panic"
  ELSE "download"

\* Mutant: a positive previous entry is reused whatever its revision.
ReuseAnyRevision(old, o) ==
  IF old.isNil \/ old.entry.isNil THEN "download"
  ELSE IF o.entry.isNil THEN "panic"
  ELSE "reuse"

\* Mutant: a negative previous entry is reused as well (the test of
\* oldobj.entry against nil is missing and a nil entry compares as equal).
ReuseAnyEntry(old, o) ==
  IF old.isNil THEN "download"
  ELSE IF o.entry.isNil THEN "panic"
  ELSE IF old.entry.isNil \/ old.entry.Rev = o.entry.Rev THEN "reuse"
  ELSE "download"

\* dbhandlerMiss, lines 386-390: the previous entry can stand in for a download.
\* Reading o.entry.Rev of a nil entry panics: "panic".
ReuseCheck(old, o) ==
  IF old.isNil \/ old.entry.isNil THEN "download"
  ELSE IF o.entry.isNil THEN "panic"
  ELSE IF old.entry.Rev = o.entry.Rev THEN "reuse"
  ELSE "download"

(***************************************************************************)
(* Initial state: main before the first request.  lmod = time.Now() at     *)
(* package initialisation, the cache is empty, the folder holds anything.  *)
(***************************************************************************)
Init ==
  /\ focus \in FilePaths
  /\ now = 0
  /\ remote \in {r \in [Paths -> {NoFile, Dir, File(1)}] :
                   \A p \in Paths : p # focus => r[p] = NoFile}
  /\ rseq = 0
  /\ lmod = 0
  /\ pending = FALSE
  /\ cache = [p \in Paths |-> NilObj]
  /\ lpc = "cursor"
  /\ cur = 0
  /\ dp = [Changes |-> FALSE]
  /\ pc = [h \in Handlers |-> "idle"]
  /\ key = [h \in Handlers |-> RootPath]
  /\ inm = [h \in Handlers |-> NoHeader]
  /\ oldobj = [h \in Handlers |-> NilObj]
  /\ obj = [h \in Handlers |-> NilObj]
  /\ tmp = [h \in Handlers |-> NilMeta]
  /\ isDir = [h \in Handlers |-> FALSE]
  /\ resp = [h \in Handlers |-> NoResp]
  /\ cnt = [h \in Handlers |-> NoCnt]
  /\ via = [h \in Handlers |-> ""]
  /\ reqs = 0

(***************************************************************************)
(* The environment: somebody changes the folder.                           *)
(***************************************************************************)
\* One change of the folder: path p is deleted, becomes a directory, or gets
\* new file content (and with it a revision never used before).
RemoteChange(p, k) ==
  /\ rseq < MaxChanges
  /\ k = "file" \/ k # remote[p].kind
  /\ rseq' = rseq + 1
  /\ remote' = [remote EXCEPT ![p] =
                  IF k = "file" THEN File(rseq + 2)
                  ELSE IF k = "dir" THEN Dir ELSE NoFile]
  /\ pending' = TRUE
  /\ UNCHANGED <<now, sharedVars, loopVars, reqVars>>

(***************************************************************************)
(* longpollloop / longpoll.                                                *)
(***************************************************************************)
\* db.ListFolderGetLatestCursor succeeds: the cursor is the folder as it is now.
CursorOk ==
  /\ lpc = "cursor"
  /\ cur' = rseq
  /\ lpc' = "poll"
  /\ UNCHANGED dp
  /\ UNCHANGED <<now, pending, envVars, sharedVars, reqVars>>

\* db.ListFolderGetLatestCursor fails: longpoll returns err.
CursorErr ==
  /\ lpc = "cursor"
  /\ lpc' = "backoff"
  /\ UNCHANGED <<cur, dp>>
  /\ UNCHANGED <<now, pending, envVars, sharedVars, reqVars>>

\* db.ListFolderLongpoll returns without error: at once with Changes = true when
\* the folder changed after the cursor, else at its timeout with Changes = false.
PollReturn ==
  /\ lpc = "poll"
  /\ dp' = [Changes |-> rseq > cur]
  /\ lpc' = "inval"
  /\ cur' = 0
  /\ UNCHANGED <<now, pending, envVars, sharedVars, reqVars>>

PollErr ==
  /\ lpc = "poll"
  /\ lpc' = "backoff"
  /\ cur' = 0
  /\ UNCHANGED dp
  /\ UNCHANGED <<now, pending, envVars, sharedVars, reqVars>>

\* time.Now(): the clock has not gone back since it was last read.  Readings
\* one unit apart stand for any two different instants.
TimeNow == now' \in {t \in {now, now + 1} : t <= MaxTime}

Dirty(o) == [o EXCEPT !.clean = FALSE]

\* Mutant: lmod is written only when the long-poll reported a change.
InvalidateOnChange ==
  /\ lpc = "inval"
  /\ TimeNow
  /\ lpc' = "pause"
  /\ dp' = [Changes |-> FALSE]
  /\ IF dp.Changes
     THEN /\ lmod' = now'
          /\ pending' = FALSE
          /\ cache' = [p \in Paths |-> Dirty(cache[p])]
          /\ obj' = [h \in Handlers |-> Dirty(obj[h])]
          /\ oldobj' = [h \in Handlers |->
                          IF pc[h] = "check" THEN Dirty(oldobj[h])
                          ELSE oldobj[h]]
     ELSE UNCHANGED <<lmod, pending, cache, obj, oldobj>>
  /\ UNCHANGED <<cur, envVars>>
  /\ UNCHANGED <<pc, key, inm, tmp, isDir, resp, cnt, via, reqs, focus>>

\* lmod = time.Now(), line 345; dp.Changes is not looked at.
Invalidate ==
  /\ lpc = "inval"
  /\ TimeNow
  /\ lmod' = now'
  /\ pending' = FALSE
  /\ lpc' = "pause"
  /\ cache' = [p \in Paths |-> Dirty(cache[p])]
  /\ obj' = [h \in Handlers |-> Dirty(obj[h])]
  /\ oldobj' = [h \in Handlers |->
                  IF pc[h] = "check" THEN Dirty(oldobj[h]) ELSE oldobj[h]]
  /\ dp' = [Changes |-> FALSE]
  /\ UNCHANGED <<cur, envVars>>
  /\ UNCHANGED <<pc, key, inm, tmp, isDir, resp, cnt, via, reqs, focus>>

\* time.Sleep(dp.Backoff seconds) is over; longpoll returns nil.
PauseEnd ==
  /\ lpc = "pause"
  /\ lpc' = "cursor"
  /\ UNCHANGED <<cur, dp>>
  /\ UNCHANGED <<now, pending, envVars, sharedVars, reqVars>>

\* Mutant: after the error the loop returns instead of going round again.
BackoffExit ==
  /\ lpc = "backoff"
  /\ lpc' = "exited"
  /\ UNCHANGED <<cur, dp>>
  /\ UNCHANGED <<now, pending, envVars, sharedVars, reqVars>>

\* time.Sleep(time.Minute) in longpollloop is over.
BackoffEnd ==
  /\ lpc = "backoff"
  /\ lpc' = "cursor"
  /\ UNCHANGED <<cur, dp>>
  /\ UNCHANGED <<now, pending, envVars, sharedVars, reqVars>>

(***************************************************************************)
(* dbhandler: one request goroutine h.                                     *)
(***************************************************************************)
Done(h, how, w) ==
  /\ pc' = [pc EXCEPT ![h] = "done"]
  /\ via' = [via EXCEPT ![h] = how]
  /\ resp' = [resp EXCEPT ![h] = w]

\* A request arrives; the two reserved paths are answered on the spot.
Request(h, p, m) ==
  /\ pc[h] \in {"idle", "done"}
  /\ \A g \in Handlers : g < h => pc[g] # "idle"
  /\ reqs < MaxRequests
  /\ reqs' = reqs + 1
  /\ UNCHANGED focus
  /\ key' = [key EXCEPT ![h] = p]
  /\ inm' = [inm EXCEPT ![h] = m]
  /\ oldobj' = [oldobj EXCEPT ![h] = NilObj]
  /\ obj' = [obj EXCEPT ![h] = NilObj]
  /\ tmp' = [tmp EXCEPT ![h] = NilMeta]
  /\ isDir' = [isDir EXCEPT ![h] = FALSE]
  /\ cnt' = [cnt EXCEPT ![h] = NoCnt]
  /\ IF Route(p) = "robots" THEN Done(h, "reserved", Write(NoResp, RobotsBody))
     ELSE IF Route(p) = "root"
          THEN Done(h, "reserved", Redirect(NoResp, RepoURL, StatusFound))
          ELSE /\ pc' = [pc EXCEPT ![h] = "get"]
               /\ via' = [via EXCEPT ![h] = ""]
               /\ resp' = [resp EXCEPT ![h] = NoResp]
  /\ UNCHANGED <<now, pending, envVars, sharedVars, loopVars>>

\* obj, err := dbcache.Get(key), line 462.
Get(h) ==
  /\ pc[h] = "get"
  /\ oldobj' = [oldobj EXCEPT ![h] = CacheGet(cache, key[h])]
  /\ cnt' = [cnt EXCEPT ![h].get = @ + 1]
  /\ pc' = [pc EXCEPT ![h] =
              IF CacheGet(cache, key[h]).isNil THEN "meta" ELSE "check"]
  /\ UNCHANGED <<key, inm, obj, tmp, isDir, resp, via, reqs, focus>>
  /\ UNCHANGED <<now, pending, envVars, sharedVars, loopVars>>

\* if obj.lastFetch.Before(lmod), line 474: miss with the old entry, or serve it.
\* lmod is read here without synchronisation with the store of line 345.  Both
\* times carry a monotonic reading, so Before compares one machine word of
\* each: a read that overlaps the store sees the old lmod or the new one, which
\* are the two orders of this step and Invalidate.
Check(h) ==
  /\ pc[h] = "check"
  /\ IF Before(oldobj[h].lastFetch, lmod)
     THEN /\ pc' = [pc EXCEPT ![h] = "meta"]
          /\ UNCHANGED <<via, resp>>
     ELSE Done(h, "hit", Serve(resp[h], inm[h], oldobj[h]))
  /\ UNCHANGED <<key, inm, oldobj, obj, tmp, isDir, cnt, reqs, focus>>
  /\ UNCHANGED <<now, pending, envVars, sharedVars, loopVars>>

\* db.GetMetadata fails with something other than not_found, lines 364-373.
MetadataErr(h) ==
  /\ pc[h] = "meta"
  /\ cnt' = [cnt EXCEPT ![h].meta = @ + 1]
  /\ Done(h, "metaerr",
          HttpError(resp[h], "metadata error", StatusInternalServerError))
  /\ UNCHANGED <<key, inm, oldobj, obj, tmp, isDir, reqs, focus>>
  /\ UNCHANGED <<now, pending, envVars, sharedVars, loopVars>>

\* db.GetMetadata answers, lines 363-378: not_found, a folder, or a file.
Metadata(h) ==
  /\ pc[h] = "meta"
  /\ cnt' = [cnt EXCEPT ![h].meta = @ + 1]
  /\ tmp' = [tmp EXCEPT ![h] =
               IF remote[key[h]].kind = "file"
               THEN FileMetadata(remote[key[h]].rev) ELSE NilMeta]
  /\ isDir' = [isDir EXCEPT ![h] = (remote[key[h]].kind = "dir")]
  /\ pc' = [pc EXCEPT ![h] =
              IF remote[key[h]].kind = "file" THEN "stamp" ELSE "nfstamp"]
  /\ UNCHANGED <<key, inm, oldobj, obj, resp, via, reqs, focus>>
  /\ UNCHANGED <<now, pending, envVars, sharedVars, loopVars>>

\* Mutant: the entry found is marked as not existing and stamped again, where
\* the code builds a new one.
NotFoundStampOver(h) ==
  /\ pc[h] = "nfstamp"
  /\ TimeNow
  /\ obj' = [obj EXCEPT ![h] =
               IF oldobj[h].isNil THEN NewObj(now', FALSE, NilMeta)
               ELSE [oldobj[h] EXCEPT !.exists = FALSE, !.lastFetch = now',
                                      !.clean = TRUE]]
  /\ pc' = [pc EXCEPT ![h] = "nfset"]
  /\ UNCHANGED <<key, inm, oldobj, tmp, isDir, resp, cnt, via, reqs, focus>>
  /\ UNCHANGED <<pending, envVars, sharedVars, loopVars>>

\* dbhandlerNotFound, lines 353-356: the negative entry is built.
NotFoundStamp(h) ==
  /\ pc[h] = "nfstamp"
  /\ TimeNow
  /\ obj' = [obj EXCEPT ![h] = NewObj(now', FALSE, NilMeta)]
  /\ pc' = [pc EXCEPT ![h] = "nfset"]
  /\ UNCHANGED <<key, inm, oldobj, tmp, isDir, resp, cnt, via, reqs, focus>>
  /\ UNCHANGED <<pending, envVars, sharedVars, loopVars>>

\* What dbhandlerMiss does once dbhandlerNotFound has returned: after the
\* not_found error it returns (line 370); after the failed type assertion
\* (lines 376-378) it goes on to line 380.
AfterNotFound(dir) == IF dir THEN "stamp" ELSE "done"

\* dbhandlerNotFound, lines 357-358: Set and serve.
NotFoundSet(h) ==
  /\ pc[h] = "nfset"
  /\ cache' = CacheSet(cache, key[h], obj[h])
  /\ cnt' = [cnt EXCEPT ![h].set = @ + 1]
  /\ resp' = [resp EXCEPT ![h] = Serve(resp[h], inm[h], obj[h])]
  /\ pc' = [pc EXCEPT ![h] = AfterNotFound(isDir[h])]
  /\ via' = [via EXCEPT ![h] =
               IF AfterNotFound(isDir[h]) = "done" THEN "notfound" ELSE ""]
  /\ UNCHANGED <<key, inm, oldobj, obj, tmp, isDir, reqs, focus>>
  /\ UNCHANGED <<now, pending, lmod, envVars, loopVars>>

\* dbhandlerMiss, lines 380-399: the new entry is built and the old one is
\* looked at.
Stamp(h) ==
  LET o == NewObj(now', TRUE, tmp[h])
      r == ReuseCheck(oldobj[h], o)
  IN /\ pc[h] = "stamp"
     /\ TimeNow
     /\ obj' = [obj EXCEPT ![h] =
                  IF r = "reuse"
                  THEN [o EXCEPT !.data = oldobj[h].data,
                                 !.contentType = oldobj[h].contentType]
                  ELSE o]
     /\ IF r = "panic" THEN Done(h, "panic", Panic(resp[h]))
        ELSE /\ pc' = [pc EXCEPT ![h] =
                         IF r = "reuse" THEN "reuseset" ELSE "download"]
             /\ UNCHANGED <<via, resp>>
     /\ UNCHANGED <<key, inm, oldobj, tmp, isDir, cnt, reqs, focus>>
     /\ UNCHANGED <<pending, envVars, sharedVars, loopVars>>

\* dbhandlerMiss, lines 394-396.
ReuseSet(h) ==
  /\ pc[h] = "reuseset"
  /\ cache' = CacheSet(cache, key[h], obj[h])
  /\ cnt' = [cnt EXCEPT ![h].set = @ + 1]
  /\ Done(h, "reuse", Serve(resp[h], inm[h], obj[h]))
  /\ UNCHANGED <<key, inm, oldobj, obj, tmp, isDir, reqs, focus>>
  /\ UNCHANGED <<now, pending, lmod, envVars, loopVars>>

\* db.Download fails, lines 401-405: always for a path that is no file, and
\* for a file when the store or the network fails.
DownloadErr(h) ==
  /\ pc[h] = "download"
  /\ cnt' = [cnt EXCEPT ![h].dl = @ + 1]
  /\ Done(h, "dlerr",
          HttpError(resp[h], "download error", StatusInternalServerError))
  /\ UNCHANGED <<key, inm, oldobj, obj, tmp, isDir, reqs, focus>>
  /\ UNCHANGED <<now, pending, envVars, sharedVars, loopVars>>

\* Mutant: the metadata that comes with the download is dropped and the entry
\* keeps the metadata fetched before (the first version's db.Download call).
DownloadKeepEntry(h) ==
  /\ pc[h] = "download"
  /\ remote[key[h]].kind = "file"
  /\ cnt' = [cnt EXCEPT ![h].dl = @ + 1]
  /\ \E readOk \in BOOLEAN :
       IF readOk
       THEN /\ obj' = [obj EXCEPT ![h] =
                         [@ EXCEPT !.data = Content(key[h], remote[key[h]].rev),
                                   !.contentType = FixMime(key[h])]]
            /\ pc' = [pc EXCEPT ![h] = "set"]
            /\ UNCHANGED <<via, resp>>
       ELSE /\ UNCHANGED obj
            /\ Done(h, "readerr",
                    HttpError(resp[h], "read error", StatusInternalServerError))
  /\ UNCHANGED <<key, inm, oldobj, tmp, isDir, reqs, focus>>
  /\ UNCHANGED <<now, pending, envVars, sharedVars, loopVars>>

\* db.Download answers with the file's metadata and body, lines 401-423; the
\* body is then read completely, or reading it fails.
Download(h) ==
  /\ pc[h] = "download"
  /\ remote[key[h]].kind = "file"
  /\ cnt' = [cnt EXCEPT ![h].dl = @ + 1]
  /\ \E readOk \in BOOLEAN :
       IF readOk
       THEN /\ obj' = [obj EXCEPT ![h] =
                         [@ EXCEPT !.entry = FileMetadata(remote[key[h]].rev),
                                   !.data = Content(key[h], remote[key[h]].rev),
                                   !.contentType = FixMime(key[h])]]
            /\ pc' = [pc EXCEPT ![h] = "set"]
            /\ UNCHANGED <<via, resp>>
       ELSE /\ obj' = [obj EXCEPT ![h] =
                         [@ EXCEPT !.entry = FileMetadata(remote[key[h]].rev)]]
            /\ Done(h, "readerr",
                    HttpError(resp[h], "read error", StatusInternalServerError))
  /\ UNCHANGED <<key, inm, oldobj, tmp, isDir, reqs, focus>>
  /\ UNCHANGED <<now, pending, envVars, sharedVars, loopVars>>

\* Mutant: the handler also records its fetch as the last invalidation.
SetInvalidating(h) ==
  /\ pc[h] = "set"
  /\ cache' = CacheSet(cache, key[h], obj[h])
  /\ cnt' = [cnt EXCEPT ![h].set = @ + 1]
  /\ lmod' = obj[h].lastFetch
  /\ Done(h, "download", Serve(resp[h], inm[h], obj[h]))
  /\ UNCHANGED <<key, inm, oldobj, obj, tmp, isDir, reqs, focus>>
  /\ UNCHANGED <<now, pending, envVars, loopVars>>

\* dbhandlerMiss, lines 424-425.
Set(h) ==
  /\ pc[h] = "set"
  /\ cache' = CacheSet(cache, key[h], obj[h])
  /\ cnt' = [cnt EXCEPT ![h].set = @ + 1]
  /\ Done(h, "download", Serve(resp[h], inm[h], obj[h]))
  /\ UNCHANGED <<key, inm, oldobj, obj, tmp, isDir, reqs, focus>>
  /\ UNCHANGED <<now, pending, lmod, envVars, loopVars>>

Step(h) ==
  \/ Get(h)
  \/ Check(h)
  \/ MetadataErr(h)
  \/ Metadata(h)
  \/ NotFoundStamp(h)
  \/ NotFoundSet(h)
  \/ Stamp(h)
  \/ ReuseSet(h)
  \/ DownloadErr(h)
  \/ Download(h)
  \/ Set(h)

Loop ==
  \/ CursorOk
  \/ CursorErr
  \/ PollReturn
  \/ PollErr
  \/ Invalidate
  \/ PauseEnd
  \/ BackoffEnd

Change == \E k \in {"none", "dir", "file"} : RemoteChange(focus, k)

Arrive(H) ==
  \E h \in H, p \in ReservedPaths \cup {focus}, m \in HeaderValues :
    Request(h, p, m)

Handle == \E h \in Handlers : Step(h)

(***************************************************************************)
(* The server: the folder changes, the watch loop runs, requests arrive at *)
(* any time and are handled concurrently.                                  *)
(***************************************************************************)
Next ==
  \/ Change
  \/ Loop
  \/ Arrive(Handlers)
  \/ Handle

Spec == Init /\ [][Next]_vars

(***************************************************************************)
(* The server with one request in flight at a time (the folder and the     *)
(* watch loop still move between and during the request's steps).          *)
(***************************************************************************)
SerialNext ==
  \/ Change
  \/ Loop
  \/ Arrive({1})
  \/ Handle

SerialSpec == Init /\ [][SerialNext]_vars

(***************************************************************************)
(* First requests: each handler takes at most one request, for the run's   *)
(* folder path.  With lmod never written no entry is ever found stale, so  *)
(* the reuse branch (ReuseSet) is never enabled and is left out of the     *)
(* steps.                                                                  *)
(***************************************************************************)
ColdRequest(h, m) ==
  /\ pc[h] = "idle"
  /\ Request(h, focus, m)

ColdStep(h) ==
  \/ Get(h)
  \/ Check(h)
  \/ MetadataErr(h)
  \/ Metadata(h)
  \/ NotFoundStamp(h)
  \/ NotFoundSet(h)
  \/ Stamp(h)
  \/ DownloadErr(h)
  \/ Download(h)
  \/ Set(h)

\* The remote store answers the watch loop without error again and again, and
\* the loop's goroutine keeps being scheduled.
LoopFairness ==
  /\ SF_vars(CursorOk)
  /\ SF_vars(PollReturn)
  /\ WF_vars(Invalidate)
  /\ WF_vars(PauseEnd)
  /\ WF_vars(BackoffEnd)

(***************************************************************************)
(* The watch loop next to a changing folder and plain requests (no         *)
(* If-None-Match) for the run's folder path, one in flight at a time.      *)
(***************************************************************************)
WatchNext ==
  \/ Change
  \/ Loop
  \/ Request(1, focus, NoHeader)
  \/ Handle

WatchSpec == Init /\ [][WatchNext]_vars /\ LoopFairness

(***************************************************************************)
(* N first requests (without If-None-Match) for one path, all in flight    *)
(* together, the folder and lmod left alone meanwhile.  Every remote call  *)
(* of a request returns (with a result or an error) and its goroutine      *)
(* keeps being scheduled.                                                  *)
(***************************************************************************)
ColdNext ==
  \/ \E h \in Handlers : ColdRequest(h, NoHeader)
  \/ \E h \in Handlers : ColdStep(h)

ColdSpec ==
  Init /\ [][ColdNext]_vars /\ \A h \in Handlers : WF_vars(ColdStep(h))

(***************************************************************************)
(* Vocabulary of the properties.                                           *)
(***************************************************************************)
Finished(h) == pc[h] = "done"

\* The entry cache.Get gave request h is a positive (negative) one.
FoundPositive(h) == ~oldobj[h].isNil /\ oldobj[h].exists
FoundNegative(h) == ~oldobj[h].isNil /\ ~oldobj[h].exists

\* The entry request h handed to dbhandlerServe last.
Served(h) == IF via[h] = "hit" THEN oldobj[h] ELSE obj[h]

NotFoundBody == <<Text("File not found")>>

(***************************************************************************)
(* C9: a request for /robots.txt gets the fixed disallow-all body and a    *)
(* request for / gets a redirect to the repository, whatever the cache     *)
(* holds; it is answered in the step it arrives in, without a cache Get or *)
(* Set, without a remote call, and that step leaves the cache, lmod and    *)
(* the clock as they were.                                                 *)
(***************************************************************************)
C9_ReservedAnswer(h) ==
  /\ Finished(h)
  /\ via[h] = "reserved"
  /\ cnt[h] = NoCnt
  /\ oldobj[h] = NilObj /\ obj[h] = NilObj
  /\ ~resp[h].aborted
  /\ IF key[h] = RobotsPath
     THEN /\ resp[h].status = StatusOK
          /\ resp[h].body = <<RobotsBody>>
     ELSE /\ resp[h].status = StatusFound
          /\ resp[h].location = RepoURL

C9_ReservedPaths ==
  /\ [](\A h \in Handlers :
          (pc[h] # "idle" /\ key[h] \in ReservedPaths) => C9_ReservedAnswer(h))
  /\ [][(reqs' # reqs /\ \A h \in Handlers : pc'[h] = "get" => pc[h] = "get")
          => (cache' = cache /\ lmod' = lmod /\ now' = now /\ remote' = remote)]_vars

C9_Witness ==
  \E h \in Handlers :
    /\ Finished(h) /\ key[h] = RobotsPath
    /\ resp[h].body = <<RobotsBody>>
    /\ cache[focus].exists
    /\ reqs = MaxRequests

(***************************************************************************)
(* C8: a request answered from a positive entry gets 304 and no body when  *)
(* its If-None-Match equals the entry's revision, and 200 with the entry's *)
(* whole body when the header differs or is absent; a request answered     *)
(* from a negative entry gets 404 whatever the header.  (Requests whose    *)
(* metadata resolved to a directory are the subject of C7.)                *)
(***************************************************************************)
C8_Conditional ==
  \A h \in Handlers :
    (Finished(h) /\ via[h] \in {"hit", "notfound", "reuse", "download"}
       /\ ~isDir[h])
      => IF Served(h).exists
         THEN /\ resp[h].etag = Served(h).entry.Rev
              /\ resp[h].contentType = Served(h).contentType
              /\ IF inm[h] = Served(h).entry.Rev
                 THEN resp[h].status = StatusNotModified /\ resp[h].body = <<>>
                 ELSE resp[h].status = StatusOK
                        /\ resp[h].body = <<Served(h).data>>
         ELSE resp[h].status = StatusNotFound /\ resp[h].body = NotFoundBody

C8_Witness ==
  \E h \in Handlers :
    /\ Finished(h) /\ via[h] = "hit" /\ Served(h).exists
    /\ inm[h] = Served(h).entry.Rev
    /\ resp[h].status = StatusNotModified

(***************************************************************************)
(* C3: a request that finds a negative entry for its path, with no write   *)
(* of lmod between the stamping of that entry and the request's check,     *)
(* answers 404 from the cache: no metadata call, no download, no Set.      *)
(***************************************************************************)
C3_NegativeCached ==
  \A h \in Handlers :
    (FoundNegative(h) /\ oldobj[h].clean /\ pc[h] # "check")
      => /\ Finished(h)
         /\ via[h] = "hit"
         /\ cnt[h] = [NoCnt EXCEPT !.get = 1]
         /\ resp[h].status = StatusNotFound
         /\ resp[h].body = NotFoundBody

C3_Witness ==
  \E h \in Handlers :
    /\ FoundNegative(h) /\ oldobj[h].clean /\ Finished(h)
    /\ remote[key[h]].kind = "none"
    /\ resp[h].status = StatusNotFound
    /\ lmod > 0

(***************************************************************************)
(* C4: a request that finds a stale positive entry and whose metadata      *)
(* fetch returns the entry's revision makes that one metadata fetch and no *)
(* download, stores one new entry with the old entry's body and content    *)
(* type, and serves it.                                                    *)
(***************************************************************************)
C4_SameRevision(h) ==
  /\ FoundPositive(h)
  /\ ~tmp[h].isNil
  /\ tmp[h].Rev = oldobj[h].entry.Rev

C4_ReuseUnchanged ==
  \A h \in Handlers :
    (Finished(h) /\ C4_SameRevision(h))
      => /\ via[h] = "reuse"
         /\ cnt[h] = [get |-> 1, meta |-> 1, dl |-> 0, set |-> 1]
         /\ obj[h].exists
         /\ obj[h].entry = tmp[h]
         /\ obj[h].data = oldobj[h].data
         /\ obj[h].contentType = oldobj[h].contentType
         /\ obj[h].lastFetch >= oldobj[h].lastFetch
         /\ resp[h].contentType = oldobj[h].contentType
         /\ resp[h].etag = oldobj[h].entry.Rev
         /\ \/ resp[h].status = StatusOK /\ resp[h].body = <<oldobj[h].data>>
            \/ resp[h].status = StatusNotModified /\ inm[h] = tmp[h].Rev

C4_Witness ==
  \E h \in Handlers :
    /\ Finished(h) /\ C4_SameRevision(h)
    /\ via[h] = "reuse"
    /\ rseq > 0
    /\ cache[key[h]].data = oldobj[h].data
    /\ resp[h].status = StatusOK

(***************************************************************************)
(* C2 as stated: whenever a request finishes for a path whose cached       *)
(* revision is no longer the remote revision, it has made exactly one      *)
(* metadata fetch and one download and has served the new content.         *)
(***************************************************************************)
C2_RevisionChanged(h) ==
  /\ FoundPositive(h)
  /\ remote[key[h]].kind = "file"
  /\ remote[key[h]].rev # oldobj[h].entry.Rev

C2_NewRevisionSeen(h) ==
  /\ FoundPositive(h)
  /\ ~tmp[h].isNil
  /\ tmp[h].Rev # oldobj[h].entry.Rev

C7_DirectoryIsNotFound ==
  \A h \in Handlers :
    (Finished(h) /\ isDir[h])
      => /\ via[h] = "notfound"
         /\ cnt[h].set = 1
         /\ cnt[h].dl = 0
         /\ ~obj[h].exists
         /\ resp[h].status = StatusNotFound
         /\ resp[h].body = NotFoundBody
         /\ ~resp[h].aborted

(***************************************************************************)
(* C10: the content type stored with a fresh download is the remote type   *)
(* when that is not the generic fallback, and otherwise the extension      *)
(* table's type for the path's last extension, or the fallback when the    *)
(* table has none.                                                         *)
(***************************************************************************)
C10_ContentType ==
  \A h \in Handlers :
    (Finished(h) /\ via[h] = "download")
      => obj[h].contentType =
           IF RemoteMime(key[h]) = OctetStream THEN FixMime(key[h])
           ELSE RemoteMime(key[h])

(***************************************************************************)
(* C1: every change of the folder is followed by a write of lmod, wherever *)
(* the watch loop is when the change happens; that write sets lmod to the  *)
(* clock reading of the moment, never back, and every cache entry stamped  *)
(* at an earlier clock reading then compares as stale.                     *)
(***************************************************************************)
C1_ChangeInvalidates ==
  /\ [][(pending /\ ~pending')
          => /\ lmod' = now'
             /\ lmod' >= lmod
             /\ \A p \in Paths :
                  (~cache[p].isNil /\ cache[p].lastFetch < now')
                    => Before(cache'[p].lastFetch, lmod')]_vars
  /\ pending ~> ~pending

\* The folder changed, lmod has been written since, and the entry cached for
\* the path before that now compares as stale.
C1_Witness ==
  /\ rseq > 0
  /\ ~pending
  /\ lmod > 0
  /\ lpc = "pause"
  /\ ~cache[focus].isNil
  /\ Before(cache[focus].lastFetch, lmod)

(***************************************************************************)
(* C5: with N first requests for one path in flight together, every        *)
(* request gets its response; every response built from a file entry       *)
(* carries the file's content (or 304 for a matching If-None-Match); every *)
(* entry a Get returns or the cache holds is a whole one (negative and     *)
(* empty, or positive with metadata, that revision's body and a content    *)
(* type); and each Set puts the setter's entry in the cache whole, so the  *)
(* cache holds the entry of the Set that came last.                        *)
(***************************************************************************)
Complete(p, e) ==
  \/ e.isNil
  \/ /\ ~e.exists
     /\ e.entry.isNil /\ e.data = NoData /\ e.contentType = ""
  \/ /\ e.exists
     /\ ~e.entry.isNil
     /\ e.data = Content(p, e.entry.Rev)
     /\ e.contentType = FixMime(p)

C5_Answer(h) ==
  IF remote[key[h]].kind = "file"
  THEN /\ via[h] \in {"hit", "reuse", "download", "metaerr", "dlerr", "readerr"}
       /\ via[h] \in {"hit", "reuse", "download"}
            => /\ Served(h).exists
               /\ resp[h].etag = remote[key[h]].rev
               /\ \/ /\ resp[h].status = StatusOK
                     /\ resp[h].body =
                          <<Content(key[h], remote[key[h]].rev)>>
                  \/ /\ resp[h].status = StatusNotModified
                     /\ inm[h] = remote[key[h]].rev
  ELSE resp[h].status \in {StatusNotFound, StatusInternalServerError}

C5_ColdConcurrent ==
  /\ [](\A h \in Handlers : Finished(h) => C5_Answer(h))
  /\ [](\A p \in Paths : Complete(p, cache[p]))
  /\ [](\A h \in Handlers : Complete(key[h], oldobj[h]))
  /\ [][\A h \in Handlers :
          IF cnt'[h].set = cnt[h].set + 1
          THEN /\ cache'[key[h]] = obj[h]
               /\ \A p \in Paths \ {key[h]} : cache'[p] = cache[p]
          ELSE (\A g \in Handlers : cnt'[g].set = cnt[g].set)
                 => \A p \in Paths : cache'[p] \in {cache[p], Dirty(cache[p])}]_vars
  /\ \A h \in Handlers : (pc[h] \notin {"idle", "done"}) ~> Finished(h)

\* Two cold requests both fetched and both stored; the cache holds the entry of
\* one of them and both were served the file's content.
C5_Witness ==
  \E h \in Handlers, g \in Handlers :
    /\ h # g
    /\ Finished(h) /\ Finished(g)
    /\ via[h] = "download" /\ via[g] = "download"
    /\ oldobj[h].isNil /\ oldobj[g].isNil
    /\ obj[h].lastFetch < obj[g].lastFetch
    /\ cache[focus] = obj[h]
    /\ resp[h].body = resp[g].body
    /\ resp[h].body = <<Content(focus, remote[focus].rev)>>

(***************************************************************************)
(* C11: the step that compares a found entry with lmod serves that entry   *)
(* when its lastFetch is at or after lmod (equal readings included): the   *)
(* response is dbhandlerServe of the entry, the cache is left as it was    *)
(* and the request has made one Get and no metadata call, download or Set. *)
(* When lastFetch is before lmod the request goes on to the metadata call  *)
(* with nothing written yet.                                               *)
(***************************************************************************)
C11_FastPath ==
  /\ [][\A h \in Handlers :
          (pc[h] = "check" /\ pc'[h] # "check")
            => /\ cache' = cache
               /\ cnt'[h] = [NoCnt EXCEPT !.get = 1]
               /\ IF oldobj[h].lastFetch >= lmod
                  THEN /\ pc'[h] = "done"
                       /\ via'[h] = "hit"
                       /\ resp'[h] = Serve(NoResp, inm[h], oldobj[h])
                       /\ ~resp'[h].aborted
                  ELSE /\ pc'[h] = "meta"
                       /\ resp'[h] = NoResp]_vars
  /\ [](\A h \in Handlers :
          (Finished(h) /\ via[h] = "hit")
            => /\ cnt[h] = [NoCnt EXCEPT !.get = 1]
               /\ resp[h] = Serve(NoResp, inm[h], oldobj[h])
               /\ \A p \in Paths : cache[p].isNil => p # key[h])

\* A request was served from a positive entry stamped at the very reading lmod
\* was written with.
C11_Witness ==
  \E h \in Handlers :
    /\ Finished(h) /\ via[h] = "hit"
    /\ FoundPositive(h)
    /\ lmod > 0
    /\ oldobj[h].lastFetch = lmod
    /\ resp[h].status = StatusOK
    /\ resp[h].body = <<oldobj[h].data>>

(***************************************************************************)
(* C12: lmod changes only in a step of the watch loop that follows a       *)
(* long-poll which reported a change; the step after a long-poll that ran  *)
(* into its time limit, and the steps in which a cursor or long-poll call  *)
(* fails, leave lmod as it was and make no cache entry compare as stale.   *)
(***************************************************************************)
C12_OnlyOnReportedChange ==
  [][(lpc' # lpc /\ ~dp.Changes)
       => /\ lmod' = lmod
          /\ \A p \in Paths :
               (~cache[p].isNil /\ Before(cache'[p].lastFetch, lmod'))
                 => Before(cache[p].lastFetch, lmod)]_vars

(***************************************************************************)
(* Every blocking call of the watch loop returns, with a result or with an *)
(* error, every sleep ends, and the loop's goroutine keeps being           *)
(* scheduled.  Nothing is assumed about which calls fail.                  *)
(***************************************************************************)
LoopProgress ==
  /\ WF_vars(CursorOk \/ CursorErr)
  /\ WF_vars(PollReturn \/ PollErr)
  /\ WF_vars(Invalidate)
  /\ WF_vars(PauseEnd)
  /\ WF_vars(BackoffEnd)

\* The watch loop next to a changing folder, no request being made.
LoopNext ==
  \/ Change
  \/ Loop

LoopSpec == Init /\ [][LoopNext]_vars /\ LoopProgress

(***************************************************************************)
(* C13: the watch loop is always in one of its five places; a failed       *)
(* cursor or long-poll call takes it to the back-off and nowhere else, the *)
(* back-off and the pause lead back to the cursor call and nowhere else;   *)
(* and from wherever it is, the loop gets to the cursor call (the start of *)
(* watching) again, whatever calls fail and whatever changes in the        *)
(* folder.                                                                 *)
(***************************************************************************)
C13_LoopNeverStuck ==
  /\ [](lpc \in {"cursor", "poll", "inval", "pause", "backoff"})
  /\ [][/\ lpc' = "backoff" => lpc \in {"cursor", "poll", "backoff"}
        /\ lpc = "backoff" => lpc' \in {"backoff", "cursor"}
        /\ lpc = "pause" => lpc' \in {"pause", "cursor"}
        /\ lpc = "inval" => lpc' \in {"inval", "pause"}]_vars
  /\ []<>(lpc = "cursor")
  /\ (lpc = "backoff") ~> (lpc = "cursor")
  /\ (lpc = "pause") ~> (lpc = "cursor")
  /\ (lpc = "inval") ~> (lpc = "cursor")
  /\ (lpc = "poll") ~> (lpc = "cursor")

\* The loop has been round once (lmod written), the folder changed, and a call
\* has failed since: the loop is backing off.
C13_Witness ==
  /\ lpc = "backoff"
  /\ lmod > 0
  /\ rseq > 0
  /\ pending

(***************************************************************************)
(* C14: whenever a request stores a positive entry, either the entry it    *)
(* found was positive with the revision of the metadata just fetched, and  *)
(* then the stored body and content type are that entry's and no download  *)
(* was made; or it found no entry, a negative one, or one of another       *)
(* revision, and then it has made a download before the Set and the stored *)
(* body is the downloaded one.  The reuse branch is entered in the first   *)
(* case only.                                                              *)
(***************************************************************************)
C14_Reusable(h) ==
  /\ FoundPositive(h)
  /\ ~tmp[h].isNil
  /\ oldobj[h].entry.Rev = tmp[h].Rev

C14_ReuseOnlyWhenSame ==
  /\ [](\A h \in Handlers :
          (pc[h] = "reuseset" \/ via[h] = "reuse") => C14_Reusable(h))
  /\ [](\A h \in Handlers :
          (pc[h] \in {"download", "set"} \/ via[h] \in {"download", "dlerr", "readerr"})
            => ~C14_Reusable(h))
  /\ [][\A h \in Handlers :
          (cnt'[h].set = cnt[h].set + 1 /\ obj[h].exists)
            => /\ cache'[key[h]] = obj[h]
               /\ IF C14_Reusable(h)
                  THEN /\ cnt[h].dl = 0
                       /\ obj[h].data = oldobj[h].data
                       /\ obj[h].contentType = oldobj[h].contentType
                  ELSE /\ cnt[h].dl = 1
                       /\ obj[h].data = Content(key[h], obj[h].entry.Rev)
                       /\ obj[h].contentType = FixMime(key[h])]_vars

\* A request that found a negative entry stale, with the file there by now,
\* downloaded it and stored the download.
C14_Witness ==
  \E h \in Handlers :
    /\ Finished(h) /\ via[h] = "download"
    /\ FoundNegative(h)
    /\ cnt[h] = [get |-> 1, meta |-> 1, dl |-> 1, set |-> 1]
    /\ cache[key[h]] = obj[h]
    /\ obj[h].data # oldobj[h].data

(***************************************************************************)
(* C15: every entry of the cache with exists = false has no metadata (and  *)
(* so no revision), no body and no content type.                           *)
(***************************************************************************)
C15_NegativeIsEmpty ==
  \A p \in Paths :
    (~cache[p].isNil /\ ~cache[p].exists)
      => /\ cache[p].entry = NilMeta
         /\ cache[p].data = NoData
         /\ cache[p].contentType = ""

\* The negative entry in the cache took the place of a positive one.
C15_Witness ==
  \E h \in Handlers :
    /\ Finished(h) /\ via[h] = "notfound"
    /\ FoundPositive(h)
    /\ oldobj[h].data # NoData
    /\ ~cache[key[h]].isNil /\ ~cache[key[h]].exists
    /\ cache[key[h]] = obj[h]

(***************************************************************************)
(* C16: lmod never goes back, it changes only in the watch loop's step     *)
(* from the returned long-poll to the pause, and no step of a request      *)
(* (arrival, Get, comparison, metadata, stamping, download, Set, serving)  *)
(* changes it.                                                             *)
(***************************************************************************)
C16_LmodMonotone ==
  /\ [][lmod' >= lmod]_vars
  /\ [][lmod' # lmod => (lpc = "inval" /\ lpc' = "pause" /\ lmod' = now')]_vars
  /\ [][(pc' # pc \/ reqs' # reqs \/ resp' # resp \/ cnt' # cnt) => lmod' = lmod]_vars
  /\ [](lmod <= now)

\* lmod has been written since the start and every request allowed has been
\* made, one of them answered through the cache.
C16_Witness ==
  /\ lmod > 0
  /\ \E h \in Handlers :
       /\ Finished(h) /\ via[h] \in {"hit", "download", "reuse", "notfound"}
       /\ cnt[h].get = 1
  /\ reqs = MaxRequests

(***************************************************************************)
(* C17: an entry of the cache that was stamped after the last write of     *)
(* lmod (and so compares as fresh), that write having come after the last  *)
(* change of the folder, tells what the folder holds for its path: it is   *)
(* positive with the file's revision when the path is a file, and negative *)
(* otherwise.  It fails when the metadata the entry was built from was     *)
(* read before the change and the entry was stamped after the write.       *)
(***************************************************************************)
C17_FreshIsCurrent ==
  \A p \in Paths :
    (/\ ~cache[p].isNil
     /\ cache[p].clean
     /\ ~Before(cache[p].lastFetch, lmod)
     /\ ~pending)
      => IF remote[p].kind = "file"
         THEN cache[p].exists /\ cache[p].entry.Rev = remote[p].rev
         ELSE ~cache[p].exists

(***************************************************************************)
(* C18: the body of every positive entry of the cache is the content the   *)
(* folder held for the entry's path at the entry's revision, and every     *)
(* response with a body built from a positive entry carries that entry's   *)
(* revision as its etag next to that revision's content.                   *)
(***************************************************************************)
C18_RevisionMatchesBody ==
  /\ \A p \in Paths :
       (~cache[p].isNil /\ cache[p].exists)
         => /\ ~cache[p].entry.isNil
            /\ cache[p].data = Content(p, cache[p].entry.Rev)
  /\ \A h \in Handlers :
       (Finished(h) /\ resp[h].status = StatusOK /\ key[h] \notin ReservedPaths)
         => resp[h].body = <<Content(key[h], resp[h].etag)>>

\* The file changed between the metadata fetch and the download, and the
\* downloaded entry is in the cache.
C18_Witness ==
  \E h \in Handlers :
    /\ Finished(h) /\ via[h] = "download"
    /\ ~tmp[h].isNil
    /\ tmp[h].Rev # obj[h].entry.Rev
    /\ cache[key[h]] = obj[h]
    /\ resp[h].etag = obj[h].entry.Rev

(***************************************************************************)
(* C19: a Set never puts an entry in the place of one with a later         *)
(* lastFetch: for every path the lastFetch of the cached entry does not    *)
(* decrease in any step.                                                   *)
(***************************************************************************)
C19_FetchedAtNeverDecreases ==
  [][\A p \in Paths :
       (~cache[p].isNil /\ ~cache'[p].isNil)
         => cache'[p].lastFetch >= cache[p].lastFetch]_vars

(***************************************************************************)
(* C20: every positive entry of the cache carries file metadata with a     *)
(* revision, and no request ever reads the revision of metadata that is    *)
(* missing, neither when it serves an entry nor when it compares the entry *)
(* it found with the metadata it fetched.                                  *)
(***************************************************************************)
C20_PositiveHasMetadata ==
  /\ \A p \in Paths :
       (~cache[p].isNil /\ cache[p].exists)
         => ~cache[p].entry.isNil /\ cache[p].entry.Rev > 0
  /\ \A h \in Handlers : ~resp[h].aborted /\ via[h] # "panic"

====
